---- MODULE Spec2Model ----
(***************************************************************************)
(* CalRoute: the travel-matrix cache, build_distance_matrix, solve_tsp and *)
(* run_optimization (website/maps_utils.py, website/optimize_routes.py).   *)
(*                                                                         *)
(* Lists keep the source's 0-based indices: a Python list of length n is a *)
(* function with domain 0..n-1.  Matrix durations are minutes, cache       *)
(* timestamps are seconds, and the wall-clock times of ScheduledTask rows  *)
(* are counted in sixtieths of a minute since today's midnight, because    *)
(* run_optimization divides a matrix entry by 60.0 before adding it.       *)
(***************************************************************************)
EXTENDS Integers, Sequences, FiniteSets, TLC

VARIABLES
    now,            \* time.time(), seconds
    ticks,          \* how often the clock has been advanced
    builds,         \* how many calls of build_distance_matrix have started
    faults,         \* how many provider calls have raised or reported a pair not OK
    cache,          \* _distance_cache: key -> NoEntry or <<timestamp, minutes>>
    pc,             \* position of the running call
    inRun,          \* TRUE when the build was called by run_optimization
    locations,      \* the list handed to build_distance_matrix
    modes,          \* the list of application modes handed to it
    mi,             \* index of the next mode of `for mode in modes`
    final_matrix,   \* build_distance_matrix's final_matrix
    mode_matrix,    \* build_distance_matrix's mode_matrix
    cacheReads,     \* history: <<key, timestamp, now>> of every cached duration read
    lastCall,       \* history: the last _process_mode call and its provider request
    failedModes,    \* history: the _process_mode calls whose provider call raised
    tasks,          \* tasks_with_locations: the user's not-completed RawTask rows
    prefOK,         \* the user has preferences with a home location
    route,          \* solve_tsp's route
    start_times,    \* solve_tsp's start_times
    travel_modes,   \* solve_tsp's travel_modes
    travel_times,   \* run_optimization's travel_times, in sixtieths of a minute
    solved,         \* history: routing.SolveWithParameters returned a solution
    scheduled,      \* the committed ScheduledTask rows of the user
    pending,        \* the ScheduledTask rows added to the session, not yet committed
    fi,             \* index of the next entry of `for i, idx in enumerate(route)`
    result,         \* what run_optimization returned
    hist,           \* history: the cache the run started with, and what the engine
                    \* and the directions provider did in it
    first,          \* history: the outcome of the user's first run, once a second follows
    workers,        \* the position of each worker of the pool of build_distance_matrix
    fetch           \* the lists and the requests of the batch loops of _process_mode

buildState == <<now, ticks, builds, faults, cache, inRun, locations, modes, mi,
                    final_matrix, mode_matrix, cacheReads, lastCall, failedModes, workers,
                    fetch>>

vars == <<now, ticks, builds, faults, cache, pc, inRun, locations, modes, mi, final_matrix,
          mode_matrix, cacheReads, lastCall, failedModes, tasks, prefOK, route,
          start_times, travel_modes, travel_times, solved, scheduled, pending, fi, result,
          hist, first, workers, fetch>>

runVars == <<tasks, prefOK, route, start_times, travel_modes, travel_times, solved,
             scheduled, pending, fi, result, hist, first>>

----------------------------------------------------------------------------
(* Bounds of the model *)

MaxTicks == 2

MaxStops == 2

MaxBuilds == 2

MaxFaults == 1

MaxTasks == 2

----------------------------------------------------------------------------
(* Python lists *)

Len0(f) == Cardinality(DOMAIN f)

Append0(f, x) == [k \in 0..Len0(f) |-> IF k < Len0(f) THEN f[k] ELSE x]

Range0(f) == {f[k] : k \in DOMAIN f}

\* f[k] of a Python list: a negative k counts from the end, and an index outside
\* -len..len-1 raises IndexError
IndexRaises(f, k) == k >= Len0(f) \/ k < 0 - Len0(f)

PyAt(f, k) == IF k < 0 THEN f[Len0(f) + k] ELSE f[k]

\* list.index(x): the first index holding x
IndexOf(f, x) == CHOOSE k \in DOMAIN f : f[k] = x /\ \A l \in DOMAIN f : f[l] = x => k <= l

\* the members of the index set P, in increasing order, each mapped through g
ListOf(P, g(_)) ==
    [r \in 0..(Cardinality(P) - 1) |->
        g(CHOOSE k \in P : Cardinality({l \in P : l < k}) = r)]

\* "remove duplicates while preserving order": the sub-list of first occurrences
Unique(f) ==
    ListOf({k \in DOMAIN f : \A l \in DOMAIN f : l < k => f[l] # f[k]}, LAMBDA k : f[k])

----------------------------------------------------------------------------
(* maps_utils.py: constants *)

Inf == 1000000000                      \* float('inf')

CACHE_EXPIRY == 7 * 24 * 60 * 60

SHORT_DISTANCE_THRESHOLD == 15

MEDIUM_DISTANCE_THRESHOLD == 30

BATCH_SIZE == 25

MAX_ELEMENTS_PER_CALL == 25 * 25

NoEntry == <<>>

AppModes == {"car", "bike", "bus_train", "walking", "rideshare"}

GoogleModes == {"driving", "bicycling", "transit", "walking"}

mode_mapping(mode) ==
    CASE mode = "car" -> "driving"
      [] mode = "bike" -> "bicycling"
      [] mode = "bus_train" -> "transit"
      [] mode = "walking" -> "walking"
      [] mode = "rideshare" -> "driving"
      [] OTHER -> "driving"

----------------------------------------------------------------------------
(* The places and the travel-time provider of the model *)

HomeAddress == "home"

Places == {"home", "A", "B"}

\* Seconds the provider reports for a pair of distinct places and a provider mode.
\* home-A is a long leg, home-B a short one, A-B is exactly at the short threshold.
ProviderSeconds(o, d, gmode) ==
    LET pair == {o, d}
        drive == gmode \in {"driving", "transit"}
    IN  CASE pair = {"home", "A"} -> IF drive THEN 1230 ELSE 5415
          [] pair = {"home", "B"} -> IF drive THEN 500 ELSE 845
          [] pair = {"A", "B"} -> IF drive THEN 905 ELSE 1790
          [] OTHER -> 45

CacheKeys == Places \X Places \X GoogleModes

_get_cache_key(origin, destination, mode) == <<origin, destination, mode>>

\* a validity test that still accepts an entry whose age equals the expiry
_is_cached_and_valid_inclusive(c, t, cache_key) ==
    /\ c[cache_key] # NoEntry
    /\ t - c[cache_key][1] <= CACHE_EXPIRY

_is_cached_and_valid(c, t, cache_key) ==
    /\ c[cache_key] # NoEntry
    /\ t - c[cache_key][1] < CACHE_EXPIRY

_should_use_mode_for_distance(mode, distance_minutes) ==
    CASE mode = "walking" -> distance_minutes <= SHORT_DISTANCE_THRESHOLD
      [] mode = "bicycling" -> distance_minutes <= MEDIUM_DISTANCE_THRESHOLD
      [] mode = "transit" -> distance_minutes >= SHORT_DISTANCE_THRESHOLD
      [] mode = "driving" -> distance_minutes >= SHORT_DISTANCE_THRESHOLD
      [] OTHER -> TRUE

\* Python's `sub in mode` on the mode strings that reach _best_mode_for_distance
StrContains(mode, sub) ==
    \/ mode = sub
    \/ mode = "bus_train" /\ sub = "bus"

_best_mode_for_distance(mode, duration) ==
    IF duration < 10
    THEN IF StrContains(mode, "walking") THEN "walking"
         ELSE IF StrContains(mode, "bike") THEN "bike" ELSE mode
    ELSE IF duration < 30
    THEN IF StrContains(mode, "bike") THEN "bike"
         ELSE IF StrContains(mode, "bus_train") THEN "bus_train" ELSE mode
    ELSE mode

----------------------------------------------------------------------------
(* maps_utils.py: _get_uncached_pairs *)

\* the index pairs (i, j), numbered i * n + j in the order of the double loop,
\* that are appended to uncached_origins and uncached_destinations
UncachedIndexPairs(c, t, locs, gmode) ==
    LET n == Len0(locs)
    IN  {k \in 0..(n * n - 1) :
            /\ k \div n # k % n
            /\ ~_is_cached_and_valid(c, t, _get_cache_key(locs[k \div n], locs[k % n], gmode))}

_get_uncached_pairs(c, t, locs, gmode) ==
    LET n == Len0(locs)
        P == UncachedIndexPairs(c, t, locs, gmode)
        uo == ListOf(P, LAMBDA k : locs[k \div n])
        ud == ListOf(P, LAMBDA k : locs[k % n])
    IN  <<Unique(uo), Unique(ud)>>

----------------------------------------------------------------------------
(* maps_utils.py: _process_mode *)

\* lines 117-136: the pass over the cache
CachePassCell(c, t, fm, locs, gmode, i, j) ==
    LET key == _get_cache_key(locs[i], locs[j], gmode)
    IN  /\ i # j
        /\ _is_cached_and_valid(c, t, key)
        /\ _should_use_mode_for_distance(gmode, c[key][2])
        /\ c[key][2] < fm[i][j]

CachePassMatrix(c, t, fm, locs, gmode) ==
    [i \in DOMAIN locs |-> [j \in DOMAIN locs |->
        IF i = j THEN 0
        ELSE IF CachePassCell(c, t, fm, locs, gmode, i, j)
             THEN c[_get_cache_key(locs[i], locs[j], gmode)][2]
             ELSE fm[i][j]]]

CachePassModes(c, t, fm, mm, locs, gmode) ==
    [i \in DOMAIN locs |-> [j \in DOMAIN locs |->
        IF CachePassCell(c, t, fm, locs, gmode, i, j)
        THEN _best_mode_for_distance(gmode, c[_get_cache_key(locs[i], locs[j], gmode)][2])
        ELSE mm[i][j]]]

\* the cached durations the pass reads (the right-hand side of line 127)
CachePassReads(c, t, locs, gmode) ==
    {<<_get_cache_key(locs[i], locs[j], gmode),
       c[_get_cache_key(locs[i], locs[j], gmode)][1], t>> :
        <<i, j>> \in {p \in (DOMAIN locs) \X (DOMAIN locs) :
            /\ p[1] # p[2]
            /\ _is_cached_and_valid(c, t, _get_cache_key(locs[p[1]], locs[p[2]], gmode))}}

missing_data(c, t, locs, gmode) ==
    \E i \in DOMAIN locs, j \in DOMAIN locs :
        i # j /\ ~_is_cached_and_valid(c, t, _get_cache_key(locs[i], locs[j], gmode))

\* slices of one entry more than BATCH_SIZE
BatchOverlong(f, b) ==
    LET lo == b * BATCH_SIZE
        hi == IF lo + BATCH_SIZE + 1 < Len0(f) THEN lo + BATCH_SIZE + 1 ELSE Len0(f)
    IN  [k \in 0..(hi - lo - 1) |-> f[lo + k]]

\* lines 155-159: the b-th slice of BATCH_SIZE entries
Batch(f, b) ==
    LET lo == b * BATCH_SIZE
        hi == IF lo + BATCH_SIZE < Len0(f) THEN lo + BATCH_SIZE ELSE Len0(f)
    IN  [k \in 0..(hi - lo - 1) |-> f[lo + k]]

NumBatches(f) == (Len0(f) + BATCH_SIZE - 1) \div BATCH_SIZE

\* What one provider call does, in order: the call itself, then one step per
\* element of the response, row by row.
EventsOfCall(ob, db) ==
    [k \in 0..(Len0(ob) * Len0(db)) |->
        IF k = 0 THEN [kind |-> "call", origins |-> ob, destinations |-> db]
        ELSE [kind |-> "elem", origin |-> ob[(k - 1) \div Len0(db)],
              destination |-> db[(k - 1) % Len0(db)]]]

Concat0(f, g) ==
    [k \in 0..(Len0(f) + Len0(g) - 1) |-> IF k < Len0(f) THEN f[k] ELSE g[k - Len0(f)]]

\* the calls of the two batch loops, in order, over the first c batch pairs
RECURSIVE FetchEvents(_, _, _)
FetchEvents(uo, ud, c) ==
    IF c = 0 THEN <<>>
    ELSE LET ob == Batch(uo, (c - 1) \div NumBatches(ud))
             db == Batch(ud, (c - 1) % NumBatches(ud))
             rest == FetchEvents(uo, ud, c - 1)
         IN  IF Len0(ob) * Len0(db) > MAX_ELEMENTS_PER_CALL THEN rest
             ELSE Concat0(rest, EventsOfCall(ob, db))

\* a fetch that keeps the answers of a response only when no step raised
StoredPairsAllOrNothing(events, cut, down) ==
    IF cut < Len0(events) THEN {}
    ELSE {<<events[k].origin, events[k].destination>> :
            k \in {l \in DOMAIN events :
                /\ events[l].kind = "elem"
                /\ events[l].origin # events[l].destination
                /\ <<events[l].origin, events[l].destination>> \notin down}}

\* The elements of the response that are stored: they come before the step that
\* raised (cut), are not a place paired with itself, and have status OK.
StoredPairs(events, cut, down) ==
    {<<events[k].origin, events[k].destination>> :
        k \in {l \in DOMAIN events :
            /\ l < cut
            /\ events[l].kind = "elem"
            /\ events[l].origin # events[l].destination
            /\ <<events[l].origin, events[l].destination>> \notin down}}

duration_minutes(o, d, gmode) == ProviderSeconds(o, d, gmode) \div 60

\* lines 186-187
StoreCache(c, t, stored, gmode) ==
    [key \in CacheKeys |->
        IF key[3] = gmode /\ <<key[1], key[2]>> \in stored
        THEN <<t, duration_minutes(key[1], key[2], gmode)>>
        ELSE c[key]]

\* lines 190-198: the cell (i, j) is written when locations.index() of a stored
\* pair gives i and j
FetchCell(fm, locs, gmode, stored, i, j) ==
    /\ <<locs[i], locs[j]>> \in stored
    /\ i = IndexOf(locs, locs[i])
    /\ j = IndexOf(locs, locs[j])
    /\ _should_use_mode_for_distance(gmode, duration_minutes(locs[i], locs[j], gmode))
    /\ duration_minutes(locs[i], locs[j], gmode) < fm[i][j]

FetchMatrix(fm, locs, gmode, stored) ==
    [i \in DOMAIN locs |-> [j \in DOMAIN locs |->
        IF FetchCell(fm, locs, gmode, stored, i, j)
        THEN duration_minutes(locs[i], locs[j], gmode)
        ELSE fm[i][j]]]

FetchModes(fm, mm, locs, mode, gmode, stored) ==
    [i \in DOMAIN locs |-> [j \in DOMAIN locs |->
        IF FetchCell(fm, locs, gmode, stored, i, j) THEN mode ELSE mm[i][j]]]

\* What the provider may do with the calls of one mode: answer everything, raise
\* at one step, or report one pair as not OK.
DownChoices == {{}} \cup {{p} : p \in {q \in Places \X Places : q[1] # q[2]}}

NoCall == [kind |-> "none"]

\* no batch loop has run
NoFetch == [origins |-> <<>>, destinations |-> <<>>, c |-> 0, calls |-> <<>>, skipped |-> 0]

\* history: the pairs of distinct places the provider had answered when it raised
AnsweredBefore(events, cut) ==
    {<<events[l].origin, events[l].destination>> :
        l \in {k \in DOMAIN events : k < cut /\ events[k].kind = "elem"
                                       /\ events[k].origin # events[k].destination}}

\* history: the index pairs whose cache entry exists and is at or past the expiry
StaleIndexPairs(c, t, locs, gmode) ==
    {p \in (DOMAIN locs) \X (DOMAIN locs) :
        /\ p[1] # p[2]
        /\ c[<<locs[p[1]], locs[p[2]], gmode>>] # NoEntry
        /\ t - c[<<locs[p[1]], locs[p[2]], gmode>>][1] >= 7 * 24 * 60 * 60}

\* One call of _process_mode(locations, mode, ...), whole: the pass over the
\* cache, the early returns, the batched provider calls under the try/except.
ProcessMode ==
    /\ pc = "modes"
    /\ mi < Len0(modes)
    /\ \E mode \in {modes[mi]} : \E gmode \in {mode_mapping(mode)} :
       \E fm1 \in {CachePassMatrix(cache, now, final_matrix, locations, gmode)} :
       \E mm1 \in {CachePassModes(cache, now, final_matrix, mode_matrix, locations, gmode)} :
       \E up \in {_get_uncached_pairs(cache, now, locations, gmode)} :
       \E call \in {[kind |-> "call", index |-> mi, mode |-> mode, at |-> now,
                     stale |-> StaleIndexPairs(cache, now, locations, gmode), origins |-> up[1], destinations |-> up[2]]} :
           /\ cacheReads' = cacheReads \cup CachePassReads(cache, now, locations, gmode)
           /\ IF ~missing_data(cache, now, locations, gmode)
                 \/ Len0(up[1]) = 0 \/ Len0(up[2]) = 0
              THEN /\ final_matrix' = fm1
                   /\ mode_matrix' = mm1
                   /\ lastCall' = [call EXCEPT !.kind = "cached"]
                   /\ UNCHANGED <<cache, failedModes, faults>>
              ELSE \E events \in {FetchEvents(up[1], up[2],
                                              NumBatches(up[1]) * NumBatches(up[2]))} :
                   \E cut \in 0..Len0(events), down \in DownChoices :
                   /\ cut = Len0(events) \/ down = {}
                   /\ (cut < Len0(events) \/ down # {}) => (faults < MaxFaults /\ first.run = 0)
                   /\ faults' = IF cut < Len0(events) \/ down # {} THEN faults + 1 ELSE faults
                   /\ \A p \in down : p[1] \in Range0(up[1]) /\ p[2] \in Range0(up[2])
                   /\ \E stored \in {StoredPairs(events, cut, down)} :
                          /\ cache' = StoreCache(cache, now, stored, gmode)
                          /\ final_matrix' = FetchMatrix(fm1, locations, gmode, stored)
                          /\ mode_matrix' = FetchModes(fm1, mm1, locations, mode, gmode, stored)
                   /\ lastCall' = [call EXCEPT !.kind =
                                      IF cut < Len0(events) THEN "raised" ELSE "fetched"]
                   /\ failedModes' =
                          IF cut < Len0(events)
                          THEN failedModes \cup
                               {[index |-> mi, gmode |-> gmode, at |-> now,
                                 answered |-> AnsweredBefore(events, cut)]}
                          ELSE failedModes
    /\ mi' = mi + 1
    /\ UNCHANGED <<workers, fetch, now, ticks, builds, pc, inRun, locations, modes, runVars>>

\* build_distance_matrix lines 226-228: the two fresh matrices
FreshMatrix(n) == [i \in 0..(n - 1) |-> [j \in 0..(n - 1) |-> Inf]]

FreshModes(n) == [i \in 0..(n - 1) |-> [j \in 0..(n - 1) |-> ""]]

\* build_distance_matrix lines 243-248: the diagonal, then the return
ZeroDiagonal(fm) == [i \in DOMAIN fm |-> [j \in DOMAIN fm |-> IF i = j THEN 0 ELSE fm[i][j]]]

FinishBuild ==
    /\ pc = "modes"
    /\ mi = Len0(modes)
    /\ final_matrix' = ZeroDiagonal(final_matrix)
    /\ pc' = "built"
    /\ UNCHANGED <<workers, fetch, now, ticks, builds, faults, cache, inRun, locations, modes, mi, mode_matrix,
                   cacheReads, lastCall, failedModes, runVars>>

\* The location lists run_optimization builds: home, one address per flexible
\* task, home again (lines 87-110).
RECURSIVE StopLists(_)
StopLists(n) ==
    IF n = 0 THEN {<<>>}
    ELSE {Append0(f, a) : f \in StopLists(n - 1), a \in Places}

LocationLists ==
    {Append0(Concat0([k \in {0} |-> HomeAddress], stops), HomeAddress) :
        stops \in UNION {StopLists(n) : n \in 0..MaxStops}}

\* list(user_transit_modes): the enabled modes in the order the set yields them
ModeLists ==
    {[k \in {0} |-> m] : m \in {"car", "walking"}}
        \cup {[k \in 0..1 |-> IF k = 0 THEN m ELSE CHOOSE x \in {"car", "walking"} : x # m] :
                m \in {"car", "walking"}}

\* A caller starts build_distance_matrix(locations, modes) for the user's places.
StartBuild ==
    /\ pc \in {"idle", "built"}
    /\ ~inRun
    /\ builds < MaxBuilds
    /\ final_matrix' = FreshMatrix(Len0(locations))
    /\ mode_matrix' = FreshModes(Len0(locations))
    /\ mi' = 0
    /\ pc' = "modes"
    /\ cacheReads' = {}
    /\ lastCall' = NoCall
    /\ failedModes' = {}
    /\ builds' = builds + 1
    /\ UNCHANGED <<workers, fetch, now, ticks, faults, cache, inRun, locations, modes, runVars>>

\* Time passes between two calls.
TickSteps == {1, CACHE_EXPIRY - 1}

Tick ==
    /\ ticks < MaxTicks
    /\ \E d \in TickSteps : now' = now + d
    /\ ticks' = ticks + 1
    /\ UNCHANGED <<workers, fetch, builds, faults, cache, pc, inRun, locations, modes, mi, final_matrix,
                   mode_matrix, cacheReads, lastCall, failedModes, runVars>>

EmptyCache == [key \in CacheKeys |-> NoEntry]

NoHist == [cache0 |-> <<>>, solver |-> <<>>, directionsUp |-> FALSE, best_mode |-> <<>>]

NoRun == [run |-> 0]

InitCache ==
    /\ now = 0
    /\ ticks = 0
    /\ builds = 0
    /\ faults = 0
    /\ cache = EmptyCache
    /\ pc = "idle"
    /\ inRun = FALSE
    /\ locations \in LocationLists
    /\ modes \in ModeLists
    /\ mi = 0
    /\ final_matrix = <<>>
    /\ mode_matrix = <<>>
    /\ cacheReads = {}
    /\ lastCall = NoCall
    /\ failedModes = {}
    /\ tasks = <<>>
    /\ prefOK = TRUE
    /\ route = <<>>
    /\ start_times = <<>>
    /\ travel_modes = <<>>
    /\ travel_times = <<>>
    /\ solved = FALSE
    /\ scheduled = <<>>
    /\ pending = <<>>
    /\ fi = 0
    /\ result = "none"
    /\ hist = NoHist
    /\ first = NoRun
    /\ workers = <<>>
    /\ fetch = NoFetch

NextCache == StartBuild \/ ProcessMode \/ FinishBuild \/ Tick

SpecCache == InitCache /\ [][NextCache]_vars

----------------------------------------------------------------------------
(* build_distance_matrix, lines 250-295: the modes on a pool of workers.     *)
(* The statements follow the return of line 248.  Every worker runs          *)
(* _process_mode on the two shared matrices; a step is one statement.        *)

\* line 277: [[None] * num_locations ...]
NoneModes(n) == [i \in 0..(n - 1) |-> [j \in 0..(n - 1) |-> "None"]]

\* lines 291-295: the cells nobody wrote get the penalty
PenalizeMissing(fm) ==
    [i \in DOMAIN fm |-> [j \in DOMAIN fm |-> IF fm[i][j] = Inf THEN 999999 ELSE fm[i][j]]]

\* lines 118-119: the k-th cell of the two loops of the pass over the cache
WorkerCell(n, k) == <<k \div n, k % n>>

\* the next turn of the loops, or the return of line 139 after the last one
WorkerAdvance(wk, n) ==
    IF wk.k + 1 = n * n THEN [k |-> n * n, at |-> "done"] ELSE [k |-> wk.k + 1, at |-> "check"]

\* lines 258-286: the matrices are created and one _process_mode per mode is submitted
PoolSubmit ==
    /\ pc = "idle"
    /\ Len0(locations) > 1
    /\ final_matrix' = ZeroDiagonal(FreshMatrix(Len0(locations)))
    /\ mode_matrix' = NoneModes(Len0(locations))
    /\ workers' = [w \in DOMAIN modes |-> [k |-> 0, at |-> "check"]]
    /\ pc' = "pool"
    /\ UNCHANGED <<now, ticks, builds, faults, cache, inRun, locations, modes, mi,
                   cacheReads, lastCall, failedModes, runVars, fetch>>

\* lines 120-132: a worker reads the cache and compares with the shared matrix
PoolCheck ==
    /\ pc = "pool"
    /\ \E w \in DOMAIN workers :
        LET n == Len0(locations)
            i == WorkerCell(n, workers[w].k)[1]
            j == WorkerCell(n, workers[w].k)[2]
            gmode == mode_mapping(modes[w])
        IN  /\ workers[w].at = "check"
            /\ IF i = j
               THEN /\ final_matrix' = [final_matrix EXCEPT ![i][j] = 0]
                    /\ workers' = [workers EXCEPT ![w] = WorkerAdvance(@, n)]
               ELSE /\ UNCHANGED final_matrix
                    /\ workers' = [workers EXCEPT ![w] =
                           IF CachePassCell(cache, now, final_matrix, locations, gmode, i, j)
                           THEN [@ EXCEPT !.at = "duration"]
                           ELSE WorkerAdvance(@, n)]
    /\ UNCHANGED <<now, ticks, builds, faults, cache, pc, inRun, locations, modes, mi,
                   mode_matrix, cacheReads, lastCall, failedModes, runVars, fetch>>

\* line 133: final_matrix[i][j] = duration
PoolWriteDuration ==
    /\ pc = "pool"
    /\ \E w \in DOMAIN workers :
        LET n == Len0(locations)
            i == WorkerCell(n, workers[w].k)[1]
            j == WorkerCell(n, workers[w].k)[2]
            key == _get_cache_key(locations[i], locations[j], mode_mapping(modes[w]))
        IN  /\ workers[w].at = "duration"
            /\ final_matrix' = [final_matrix EXCEPT ![i][j] = cache[key][2]]
            /\ workers' = [workers EXCEPT ![w].at = "mode"]
    /\ UNCHANGED <<now, ticks, builds, faults, cache, pc, inRun, locations, modes, mi,
                   mode_matrix, cacheReads, lastCall, failedModes, runVars, fetch>>

\* line 134: mode_matrix[i][j] = _best_mode_for_distance(google_mode, duration)
PoolWriteMode ==
    /\ pc = "pool"
    /\ \E w \in DOMAIN workers :
        LET n == Len0(locations)
            i == WorkerCell(n, workers[w].k)[1]
            j == WorkerCell(n, workers[w].k)[2]
            gmode == mode_mapping(modes[w])
            key == _get_cache_key(locations[i], locations[j], gmode)
        IN  /\ workers[w].at = "mode"
            /\ mode_matrix' = [mode_matrix EXCEPT ![i][j] =
                                  _best_mode_for_distance(gmode, cache[key][2])]
            /\ workers' = [workers EXCEPT ![w] = WorkerAdvance(@, n)]
    /\ UNCHANGED <<now, ticks, builds, faults, cache, pc, inRun, locations, modes, mi,
                   final_matrix, cacheReads, lastCall, failedModes, runVars, fetch>>

\* lines 287-295: every future has its result; the cells left at infinity are penalized
PoolJoin ==
    /\ pc = "pool"
    /\ \A w \in DOMAIN workers : workers[w].at = "done"
    /\ final_matrix' = PenalizeMissing(final_matrix)
    /\ pc' = "joined"
    /\ UNCHANGED <<now, ticks, builds, faults, cache, inRun, locations, modes, mi,
                   mode_matrix, cacheReads, lastCall, failedModes, runVars, fetch, workers>>

\* the minutes a filled cache holds for a driving and for a transit leg
PoolMinutes == {20, 25}

\* caches in which every pair of distinct places has an unexpired entry of every mode
PoolCaches ==
    {[key \in CacheKeys |->
        IF key[1] = key[2] THEN NoEntry
        ELSE IF key[3] = "driving" THEN <<0, dd>>
        ELSE IF key[3] = "transit" THEN <<0, dt>>
        ELSE <<0, duration_minutes(key[1], key[2], key[3])>>] :
      dd \in PoolMinutes, dt \in PoolMinutes}

\* lists of distinct addresses
PoolLocationLists ==
    {[k \in 0..1 |-> IF k = 0 THEN "home" ELSE "A"],
     [k \in 0..2 |-> IF k = 0 THEN "home" ELSE IF k = 1 THEN "A" ELSE "B"]}

PoolModeLists ==
    {[k \in 0..1 |-> IF k = 0 THEN "car" ELSE "bus_train"],
     [k \in 0..1 |-> IF k = 0 THEN "bus_train" ELSE "car"]}

InitPool ==
    /\ now = 0
    /\ ticks = 0
    /\ builds = 0
    /\ faults = 0
    /\ cache \in PoolCaches
    /\ pc = "idle"
    /\ inRun = FALSE
    /\ locations \in PoolLocationLists
    /\ modes \in PoolModeLists
    /\ mi = 0
    /\ final_matrix = <<>>
    /\ mode_matrix = <<>>
    /\ cacheReads = {}
    /\ lastCall = NoCall
    /\ failedModes = {}
    /\ tasks = <<>>
    /\ prefOK = TRUE
    /\ route = <<>>
    /\ start_times = <<>>
    /\ travel_modes = <<>>
    /\ travel_times = <<>>
    /\ solved = FALSE
    /\ scheduled = <<>>
    /\ pending = <<>>
    /\ fi = 0
    /\ result = "none"
    /\ hist = NoHist
    /\ first = NoRun
    /\ workers = <<>>
    /\ fetch = NoFetch

NextPool == PoolSubmit \/ PoolCheck \/ PoolWriteDuration \/ PoolWriteMode \/ PoolJoin

SpecPool == InitPool /\ [][NextPool]_vars

----------------------------------------------------------------------------
(* _get_uncached_pairs lines 54-70 and _process_mode lines 149-170 on lists  *)
(* longer than one batch.  Places are numbers here; only their identity      *)
(* matters to the de-duplication and to the slicing.                         *)

\* lengths of the lists of uncached origins and destinations before the
\* duplicates are removed, and the numbers of distinct places in them
RawLengths == {1, 30, 52}

DistinctCounts == {1, 25, 26, 51}

RawLists == {[k \in 0..(n - 1) |-> k % m] : n \in RawLengths, m \in DistinctCounts}

\* lines 54-70: unique_origins and unique_destinations
DedupPairs ==
    /\ pc = "raw"
    /\ fetch' = [fetch EXCEPT !.origins = Unique(@), !.destinations = Unique(@)]
    /\ pc' = "batches"
    /\ UNCHANGED <<now, ticks, builds, faults, cache, inRun, locations, modes, mi, final_matrix,
                   mode_matrix, cacheReads, lastCall, failedModes, runVars, workers>>

\* lines 153-170: one turn of the inner batch loop, up to the provider request
NextBatch ==
    /\ pc = "batches"
    /\ fetch.c < NumBatches(fetch.origins) * NumBatches(fetch.destinations)
    /\ LET batch_origins == Batch(fetch.origins, fetch.c \div NumBatches(fetch.destinations))
           batch_destinations == Batch(fetch.destinations, fetch.c % NumBatches(fetch.destinations))
       IN  fetch' =
               IF Len0(batch_origins) * Len0(batch_destinations) > MAX_ELEMENTS_PER_CALL
               THEN [fetch EXCEPT !.c = @ + 1, !.skipped = @ + 1]
               ELSE [fetch EXCEPT !.c = @ + 1,
                        !.calls = Append0(@, [origins |-> batch_origins,
                                              destinations |-> batch_destinations])]
    /\ UNCHANGED <<now, ticks, builds, faults, cache, pc, inRun, locations, modes, mi,
                   final_matrix, mode_matrix, cacheReads, lastCall, failedModes, runVars,
                   workers>>

\* the two loops are over
BatchesDone ==
    /\ pc = "batches"
    /\ fetch.c = NumBatches(fetch.origins) * NumBatches(fetch.destinations)
    /\ pc' = "fetched"
    /\ UNCHANGED <<now, ticks, builds, faults, cache, inRun, locations, modes, mi, final_matrix,
                   mode_matrix, cacheReads, lastCall, failedModes, runVars, workers, fetch>>

InitBatch ==
    /\ now = 0
    /\ ticks = 0
    /\ builds = 0
    /\ faults = 0
    /\ cache = EmptyCache
    /\ pc = "raw"
    /\ inRun = FALSE
    /\ locations = <<>>
    /\ modes = <<>>
    /\ mi = 0
    /\ final_matrix = <<>>
    /\ mode_matrix = <<>>
    /\ cacheReads = {}
    /\ lastCall = NoCall
    /\ failedModes = {}
    /\ tasks = <<>>
    /\ prefOK = TRUE
    /\ route = <<>>
    /\ start_times = <<>>
    /\ travel_modes = <<>>
    /\ travel_times = <<>>
    /\ solved = FALSE
    /\ scheduled = <<>>
    /\ pending = <<>>
    /\ fi = 0
    /\ result = "none"
    /\ hist = NoHist
    /\ first = NoRun
    /\ workers = <<>>
    /\ \E uo \in RawLists, ud \in RawLists :
           fetch = [NoFetch EXCEPT !.origins = uo, !.destinations = ud]

NextBatches == DedupPairs \/ NextBatch \/ BatchesDone

SpecBatch == InitBatch /\ [][NextBatches]_vars



----------------------------------------------------------------------------
(* optimize_routes.py: run_optimization, lines 38-122 *)

NoTime == -1                            \* a NULL start_time or end_time

\* The RawTask rows of the model.  start and end are minutes of today, duration 0
\* is a NULL duration, loc "none" is a task without Location row.
TaskShapes ==
    { [source |-> "google_calendar", start |-> 540, end |-> 600, duration |-> 60, loc |-> "A",
        status |-> "not_completed"],
      [source |-> "google_calendar", start |-> 560, end |-> 620, duration |-> 60, loc |-> "B",
        status |-> "not_completed"],
      [source |-> "google_calendar", start |-> 1350, end |-> 1410, duration |-> 60, loc |-> "A",
        status |-> "not_completed"],
      [source |-> "todoist", start |-> NoTime, end |-> NoTime, duration |-> 0, loc |-> "B",
        status |-> "not_completed"],
      [source |-> "manual", start |-> 600, end |-> 720, duration |-> 30, loc |-> "A",
        status |-> "not_completed"] }

\* .order_by(RawTask.start_time): the rows with a start time are in its order
OrderedByStart(ts) ==
    \A k \in DOMAIN ts, l \in DOMAIN ts :
        (k < l /\ ts[k].start # NoTime /\ ts[l].start # NoTime) => ts[k].start <= ts[l].start

TaskLists ==
    {ts \in UNION {[0..(n - 1) -> TaskShapes] : n \in 0..MaxTasks} : OrderedByStart(ts)}

\* line 43: the filter RawTask.status == 'not_completed' of the query
NotCompleted(task) == task.status = "not_completed"

\* lines 92 and 223
IsFixed(task) ==
    task.source = "google_calendar" /\ task.start # NoTime /\ task.end # NoTime

default_start_time == 8 * 60

\* task_indices (line 108): the indices of the tasks that get a route node
task_indices(ts) ==
    ListOf({k \in DOMAIN ts : NotCompleted(ts[k]) /\ ~IsFixed(ts[k])}, LAMBDA k : k)

\* locations (lines 87, 95, 110)
RunLocations(ts) ==
    LET ti == task_indices(ts)
    IN  [n \in 0..(Len0(ti) + 1) |->
            IF n = 0 \/ n = Len0(ti) + 1 \/ ts[ti[n - 1]].loc = "none"
            THEN HomeAddress ELSE ts[ti[n - 1]].loc]

\* durations (lines 88, 96, 111)
durations(ts) ==
    LET ti == task_indices(ts)
    IN  [n \in 0..(Len0(ti) + 1) |->
            IF n = 0 \/ n = Len0(ti) + 1 THEN 0
            ELSE IF ts[ti[n - 1]].duration # 0 THEN ts[ti[n - 1]].duration ELSE 45]

\* time_windows (lines 89, 101-107, 114)
time_windows(ts) ==
    LET ti == task_indices(ts)
    IN  [n \in 0..(Len0(ti) + 1) |->
            IF n = 0 \/ n = Len0(ti) + 1 THEN <<default_start_time, 1440>>
            ELSE <<IF ts[ti[n - 1]].start # NoTime THEN ts[ti[n - 1]].start
                   ELSE default_start_time,
                   IF ts[ti[n - 1]].end # NoTime THEN ts[ti[n - 1]].end ELSE 24 * 60>>]

\* run_optimization up to its call of build_distance_matrix, and the first lines
\* of build_distance_matrix
StartRun ==
    /\ pc = "idle"
    /\ inRun
    /\ IF (\A k \in DOMAIN tasks : ~NotCompleted(tasks[k])) \/ ~prefOK
       THEN /\ result' = "false"
            /\ pc' = "done"
            /\ UNCHANGED <<builds, locations, modes, mi, final_matrix, mode_matrix>>
       ELSE /\ locations' = RunLocations(tasks)
            /\ modes' = IF Len0(modes) = 0 THEN [k \in {0} |-> "car"] ELSE modes
            /\ final_matrix' = FreshMatrix(Len0(RunLocations(tasks)))
            /\ mode_matrix' = FreshModes(Len0(RunLocations(tasks)))
            /\ mi' = 0
            /\ builds' = builds + 1
            /\ pc' = "modes"
            /\ UNCHANGED result
    /\ hist' = [hist EXCEPT !.cache0 = cache]
    /\ UNCHANGED <<workers, fetch, now, ticks, faults, cache, inRun, cacheReads, lastCall, failedModes,
                   tasks, prefOK, route, start_times, travel_modes, travel_times, solved,
                   scheduled, pending, fi, first>>

----------------------------------------------------------------------------
(* maps_utils.py: solve_tsp *)

Plus(a, b) == IF a = Inf \/ b = Inf THEN Inf ELSE a + b

Max(a, b) == IF a >= b THEN a ELSE b

Min(a, b) == IF a <= b THEN a ELSE b

\* lines 402-412 and 429: the range set on a node's cumulative time
CumulRange(tw) ==
    LET end_max == Min(1440, tw[2])
        start_min == Min(Max(0, tw[1]), end_max)
    IN  <<start_min, end_max>>

\* lines 487-544: the fallback when the engine returns no solution
fallback_route(n) == [i \in 0..(n - 1) |-> i]

fallback_times(n) == [i \in 0..(n - 1) |-> 8 * 60 + i * 60]

fallback_modes(n) == [i \in 0..(n - 2) |-> "walking"]

\* What the routing engine may return for n nodes with depot 0: the order in
\* which the nodes 1..n-1 are visited between start and end, and the value of
\* solution.Min(CumulVar) of each node, inside the range set on it.  Only the
\* ranges of line 429 are imposed on the engine.
TourOrders(n) ==
    {f \in [0..(n - 2) -> 1..(n - 1)] : \A k \in DOMAIN f, l \in DOMAIN f : f[k] = f[l] => k = l}

CumulChoices(tws) ==
    {[i \in DOMAIN tws |-> CumulRange(tws[i])[IF late[i] THEN 2 ELSE 1]] :
        late \in [DOMAIN tws -> BOOLEAN]}

\* lines 563-583: the nodes the extraction loop keeps
KeptNodes(order, n) ==
    IF 0 < n - 2 THEN order ELSE Concat0([k \in {0} |-> 0], order)

\* lines 585-608: start_times of the kept nodes, with the zero-time fallback
LoopTimes(kept, cumul, dm, durs) ==
    LET st[k \in DOMAIN kept] ==
            IF cumul[kept[k]] = 0 /\ kept[k] > 0 /\ k > 0
            THEN Plus(Plus(st[k - 1], dm[kept[k - 1]][kept[k]]), durs[kept[k - 1]])
            ELSE cumul[kept[k]]
    IN  st

\* lines 716-724: the clean-up of the times
CleanTimes(ts) ==
    LET ct[i \in DOMAIN ts] ==
            IF ts[i] < 0 \/ ts[i] > 1440
            THEN IF i > 0 THEN ct[i - 1] + 60 ELSE 540
            ELSE ts[i]
    IN  ct

\* lines 624-633: the first non-empty mode of the matrix, or "walking"
FirstMatrixMode(mm) ==
    LET n == Len0(mm)
        P == {k \in 0..(n * n - 1) : mm[k \div n][k % n] # ""}
    IN  IF P = {} THEN "walking"
        ELSE LET k == CHOOSE k \in P : \A l \in P : k <= l
             IN  mm[k \div n][k % n]

\* leg modes taken from the mode matrix as they are, without a default
LoopModesRaw(kept, mm) ==
    [k \in DOMAIN kept |->
        IF k + 1 < Len0(kept) THEN mm[kept[k]][kept[k + 1]] ELSE FirstMatrixMode(mm)]

\* lines 610-668: the mode of the leg leaving each kept node
LoopModes(kept, mm) ==
    [k \in DOMAIN kept |->
        IF k + 1 < Len0(kept)
        THEN IF mm[kept[k]][kept[k + 1]] # "" THEN mm[kept[k]][kept[k + 1]]
             ELSE FirstMatrixMode(mm)
        ELSE FirstMatrixMode(mm)]

\* lines 707-714
PadModes(tm, n) == [k \in 0..(Max(n, Len0(tm)) - 1) |-> IF k < Len0(tm) THEN tm[k] ELSE "car"]

MaxOf(f) == CHOOSE v \in Range0(f) : \A w \in Range0(f) : w <= v

\* solve_tsp(distance_matrix, task_durations=durations, time_windows=time_windows,
\* mode_matrix=mode_matrix), whole
SolveTsp ==
    /\ pc = "built"
    /\ inRun
    /\ \E n \in {Len0(locations)} :
       \/ /\ first.run = 1 => first.hist.solver = <<FALSE, <<>>, <<>>>>
          /\ hist' = [hist EXCEPT !.solver = <<FALSE, <<>>, <<>>>>]
          /\ solved' = FALSE
          /\ route' = fallback_route(n)
          /\ start_times' = fallback_times(n)
          /\ travel_modes' = fallback_modes(n)
       \/ \E order \in TourOrders(n), cumul \in CumulChoices(time_windows(tasks)) :
          \E kept \in {KeptNodes(order, n)} :
          /\ first.run = 1 => first.hist.solver = <<TRUE, order, cumul>>
          /\ hist' = [hist EXCEPT !.solver = <<TRUE, order, cumul>>]
          /\ solved' = TRUE
          /\ route' = Append0(kept, 0)
          /\ start_times' = CleanTimes(Append0(
                 LoopTimes(kept, cumul, final_matrix, durations(tasks)), MaxOf(cumul)))
          /\ travel_modes' = PadModes(LoopModes(kept, mode_matrix), Len0(kept))
    /\ pc' = "solved"
    /\ UNCHANGED <<buildState, tasks, prefOK, travel_times, scheduled, pending, fi, result,
                   first>>

----------------------------------------------------------------------------
(* optimize_routes.py: run_optimization, lines 144-555 *)

TicksPerMinute == 60                    \* wall-clock unit: a sixtieth of a minute

\* googlemaps accepts these travel modes and raises ValueError on any other
ValidDirectionsMode(mode) == mode \in {"driving", "walking", "bicycling", "transit"}

\* lines 155-201: travel_times[i] of the leg route[i] -> route[i+1].  The matrix
\* entry is divided by 60.0; an entry below one minute after that division is
\* replaced by the provider's directions duration when that call succeeds.
TravelTime(dm, locs, r, tm, i, directionsUp) ==
    LET raw == dm[r[i]][r[i + 1]]
        mode == IF Len0(tm) > 0 /\ i < Len0(tm) THEN tm[i] ELSE "driving"
    IN  IF raw = Inf \/ raw = 0 THEN 0
        ELSE IF raw < 60 /\ directionsUp /\ ValidDirectionsMode(mode)
                /\ locs[r[i]] # locs[r[i + 1]]
             THEN ProviderSeconds(locs[r[i]], locs[r[i + 1]], mode)
             ELSE raw

\* lines 185-201: gmaps.directions is called for a leg below one minute only; it
\* answers or raises
DirectionsChoices(dm, r) ==
    IF \E i \in 0..(Len0(r) - 2) : dm[r[i]][r[i + 1]] > 0 /\ dm[r[i]][r[i + 1]] < 60
    THEN BOOLEAN ELSE {TRUE}

\* a run that does not delete the rows of the schedule before it
PrepareKeepingSchedule ==
    /\ pc = "solved"
    /\ IF Len0(route) = 0
       THEN /\ result' = "false"
            /\ pc' = "done"
            /\ UNCHANGED <<scheduled, pending, travel_times, hist>>
       ELSE /\ pending' = scheduled
            /\ UNCHANGED scheduled
            /\ \E directionsUp \in DirectionsChoices(final_matrix, route) :
                   /\ first.run = 1 => first.hist.directionsUp = directionsUp
                   /\ hist' = [hist EXCEPT !.directionsUp = directionsUp]
                   /\ travel_times' = [i \in 0..(Len0(route) - 2) |->
                       TravelTime(final_matrix, locations, route, travel_modes, i, directionsUp)]
            /\ pc' = "fixed"
            /\ UNCHANGED result
    /\ UNCHANGED <<buildState, tasks, prefOK, route, start_times, travel_modes, solved, fi,
                   first>>

\* lines 144-201: the check of the route, the deletion of the old schedule with
\* its commit, and the travel times
Prepare ==
    /\ pc = "solved"
    /\ IF Len0(route) = 0
       THEN /\ result' = "false"
            /\ pc' = "done"
            /\ UNCHANGED <<scheduled, pending, travel_times, hist>>
       ELSE /\ scheduled' = <<>>
            /\ pending' = <<>>
            /\ \E directionsUp \in DirectionsChoices(final_matrix, route) :
                   /\ first.run = 1 => first.hist.directionsUp = directionsUp
                   /\ hist' = [hist EXCEPT !.directionsUp = directionsUp]
                   /\ travel_times' = [i \in 0..(Len0(route) - 2) |->
                       TravelTime(final_matrix, locations, route, travel_modes, i, directionsUp)]
            /\ pc' = "fixed"
            /\ UNCHANGED result
    /\ UNCHANGED <<buildState, tasks, prefOK, route, start_times, travel_modes, solved, fi,
                   first>>

\* a row of a fixed-time task that is moved by the transition buffer
FixedSlotBuffered(ts, k) ==
    [raw_task_id |-> k,
     scheduled_start_time |-> (ts[k].start + 15) * TicksPerMinute,
     scheduled_end_time |-> (ts[k].end + 15) * TicksPerMinute,
     node |-> -1]

\* lines 399-412: the row of a fixed-time task
FixedSlot(ts, k) ==
    [raw_task_id |-> k,
     scheduled_start_time |-> ts[k].start * TicksPerMinute,
     scheduled_end_time |-> ts[k].end * TicksPerMinute,
     node |-> -1]

\* lines 213 and 225-344: best_mode starts as the first enabled mode and every
\* branch that changes it (forced mode, distance from home, provider error)
\* takes one of the enabled modes
default_mode(ms) == ms[0]

BestModeChoices(ms) == Range0(ms)

\* lines 222-416: the loop over the fixed-time tasks, in the order of the query
ScheduleFixed ==
    /\ pc = "fixed"
    /\ \E best_mode \in [{k \in DOMAIN tasks : NotCompleted(tasks[k]) /\ IsFixed(tasks[k])} -> BestModeChoices(modes)] :
           /\ first.run = 1 => first.hist.best_mode = best_mode
           /\ hist' = [hist EXCEPT !.best_mode = best_mode]
           /\ pending' = Concat0(pending,
               ListOf({k \in DOMAIN tasks : NotCompleted(tasks[k]) /\ IsFixed(tasks[k])},
                      LAMBDA k : FixedSlot(tasks, k) @@ [transit_mode |-> best_mode[k]]))
    /\ fi' = 0
    /\ pc' = "flex"
    /\ UNCHANGED <<buildState, tasks, prefOK, route, start_times, travel_modes, travel_times,
                   solved, scheduled, result, first>>

buffer_minutes == 15

\* lines 437-442: the latest end among the rows the session query returns
LatestEnd(rows) == MaxOf([k \in DOMAIN rows |-> rows[k].scheduled_end_time])

\* line 428: datetime.time(hour, minute) raises unless 0 <= hour <= 23
TimeRaises(mins) == mins \div 60 < 0 \/ mins \div 60 > 23

\* lines 427-458: the start of the slot of route entry i
SlotStart(rows, st, tt, r, i) ==
    LET suggested_start == PyAt(st, r[i]) * TicksPerMinute
    IN  IF i > 0 /\ Len0(tt) > 0 /\ i - 1 < Len0(tt) /\ Len0(rows) > 0
        THEN Max(suggested_start,
                 LatestEnd(rows) + tt[i - 1] + buffer_minutes * TicksPerMinute)
        ELSE suggested_start

\* a row of a flexible task whose end is computed before the start is adjusted
FlexSlotEndBeforeAdjust(ts, rows, st, tt, r, i) ==
    [raw_task_id |-> PyAt(task_indices(ts), r[i] - 1),
     scheduled_start_time |-> SlotStart(rows, st, tt, r, i),
     scheduled_end_time |-> (PyAt(st, r[i]) + PyAt(durations(ts), r[i])) * TicksPerMinute,
     node |-> r[i]]

\* a row of a flexible task that takes the route node as the index of the task
FlexSlotByNode(ts, rows, st, tt, r, i) ==
    LET start == SlotStart(rows, st, tt, r, i)
    IN  [raw_task_id |-> r[i] - 1,
         scheduled_start_time |-> start,
         scheduled_end_time |-> start + PyAt(durations(ts), r[i]) * TicksPerMinute,
         node |-> r[i]]

\* lines 538-550: the row of a flexible task
FlexSlot(ts, rows, st, tt, r, i) ==
    LET start == SlotStart(rows, st, tt, r, i)
    IN  [raw_task_id |-> PyAt(task_indices(ts), r[i] - 1),
         scheduled_start_time |-> start,
         scheduled_end_time |-> start + PyAt(durations(ts), r[i]) * TicksPerMinute,
         node |-> r[i]]

\* a skip test that knows the end depot only
IsEndDepot(idx, n) == idx = n - 1

\* lines 461-476 and 548: the mode stored with a flexible row is the mode of the
\* leg before route entry i, or the first enabled mode when there is none
FlexTransitMode(tm, ms, i) ==
    LET transit_mode == IF i > 0 /\ Len0(tm) > 0 /\ i - 1 < Len0(tm) THEN tm[i - 1] ELSE ""
    IN  IF transit_mode # "" THEN transit_mode ELSE default_mode(ms)

\* lines 520 and 547: the travel time stored with a flexible row, in the unit of
\* travel_times
FlexTravelEta(tt, i) == IF i > 0 /\ i - 1 < Len0(tt) THEN tt[i - 1] ELSE 0

\* line 420: the route entries that are skipped
IsDepot(idx, n) == idx = 0 \/ idx = n - 1

\* lines 419-550: one iteration of `for i, idx in enumerate(route)`; an exception
\* of lines 423-428 leaves run_optimization before its commit
ScheduleFlexible ==
    /\ pc = "flex"
    /\ fi < Len0(route)
    /\ IF IsDepot(route[fi], Len0(locations))
       THEN /\ fi' = fi + 1
            /\ UNCHANGED <<pc, pending, result>>
       ELSE IF \/ IndexRaises(task_indices(tasks), route[fi] - 1)
               \/ IndexRaises(start_times, route[fi])
               \/ TimeRaises(PyAt(start_times, route[fi]))
       THEN /\ pc' = "raised"
            /\ result' = "raised"
            /\ UNCHANGED <<fi, pending>>
       ELSE /\ pending' = Append0(pending,
                   FlexSlot(tasks, pending, start_times, travel_times, route, fi)
                       @@ [transit_mode |-> FlexTransitMode(travel_modes, modes, fi),
                           travel_eta_minutes |-> FlexTravelEta(travel_times, fi)])
            /\ fi' = fi + 1
            /\ UNCHANGED <<pc, result>>
    /\ UNCHANGED <<workers, fetch, now, ticks, builds, faults, cache, inRun, locations, modes, mi,
                   final_matrix, mode_matrix, cacheReads, lastCall, failedModes, tasks,
                   prefOK, route, start_times, travel_modes, travel_times, solved, scheduled,
                   hist, first>>

\* lines 552-555: the commit and the return
Commit ==
    /\ pc = "flex"
    /\ fi = Len0(route)
    /\ scheduled' = pending
    /\ pending' = <<>>
    /\ result' = "true"
    /\ pc' = "done"
    /\ UNCHANGED <<buildState, tasks, prefOK, route, start_times, travel_modes, travel_times,
                   solved, fi, hist, first>>

\* The caller runs run_optimization(user) again on the same rows, a second
\* later.  The second run is followed for the provider answering every
\* request in both runs and for the same choices of the engine, of the
\* directions provider and of the distance-based modes as in the first.
RunAgain ==
    /\ pc = "done"
    /\ result = "true"
    /\ first.run = 0
    /\ faults = 0
    /\ first' = [run |-> 1, hist |-> hist, final_matrix |-> final_matrix,
                 mode_matrix |-> mode_matrix, route |-> route, start_times |-> start_times,
                 travel_modes |-> travel_modes, scheduled |-> scheduled]
    /\ now' = now + 1
    /\ pc' = "idle"
    /\ result' = "none"
    /\ route' = <<>>
    /\ start_times' = <<>>
    /\ travel_modes' = <<>>
    /\ travel_times' = <<>>
    /\ solved' = FALSE
    /\ fi' = 0
    /\ UNCHANGED <<workers, fetch, ticks, builds, faults, cache, inRun, locations, modes, mi, final_matrix,
                   mode_matrix, cacheReads, lastCall, failedModes, tasks, prefOK, scheduled,
                   pending, hist>>

\* views/tasks.py lines 582-604: the raw tasks of the chosen rows of the schedule
\* are marked completed; the handler then calls run_optimization(user), which
\* the actions of the run carry out.  Followed for runs without provider faults
\* and for calls that complete at least one task that was not completed yet.
\* The request has a session of its own: rows an earlier request added and never
\* committed are not in it.
complete_tasks ==
    /\ pc \in {"done", "raised"}
    /\ first.run \in {0, 2}
    /\ faults = 0
    /\ \E sched_task_ids \in (SUBSET DOMAIN scheduled) \ {{}} :
          LET raw_task_ids == {scheduled[s].raw_task_id : s \in sched_task_ids}
          IN  /\ \E k \in raw_task_ids : NotCompleted(tasks[k])
              /\ tasks' = [k \in DOMAIN tasks |->
                              IF k \in raw_task_ids
                              THEN [tasks[k] EXCEPT !.status = "completed"]
                              ELSE tasks[k]]
    /\ first' = [run |-> 2]
    /\ pc' = "idle"
    /\ result' = "none"
    /\ route' = <<>>
    /\ start_times' = <<>>
    /\ travel_modes' = <<>>
    /\ travel_times' = <<>>
    /\ solved' = FALSE
    /\ fi' = 0
    /\ pending' = <<>>
    /\ UNCHANGED <<buildState, prefOK, scheduled, hist>>

\* views/tasks.py lines 618-634: one raw task of the user is marked completed and
\* run_optimization(user) is called
complete_single_task ==
    /\ pc \in {"done", "raised"}
    /\ first.run \in {0, 2}
    /\ faults = 0
    /\ \E task_id \in DOMAIN tasks :
          /\ NotCompleted(tasks[task_id])
          /\ tasks' = [tasks EXCEPT ![task_id].status = "completed"]
    /\ first' = [run |-> 2]
    /\ pc' = "idle"
    /\ result' = "none"
    /\ route' = <<>>
    /\ start_times' = <<>>
    /\ travel_modes' = <<>>
    /\ travel_times' = <<>>
    /\ solved' = FALSE
    /\ fi' = 0
    /\ pending' = <<>>
    /\ UNCHANGED <<buildState, prefOK, scheduled, hist>>

\* the enabled transit modes of the user's preferences; none enabled is <<>>
PrefModeLists == ModeLists \cup {<<>>}

\* a cache that an earlier build of the same places has filled, all answers OK
WarmCache ==
    [key \in CacheKeys |->
        IF key[1] # key[2] THEN <<0, duration_minutes(key[1], key[2], key[3])>> ELSE NoEntry]

Init ==
    /\ now = 0
    /\ ticks = 0
    /\ builds = 0
    /\ faults = 0
    /\ cache \in {EmptyCache, WarmCache}
    /\ pc = "idle"
    /\ inRun = TRUE
    /\ locations = <<>>
    /\ modes \in PrefModeLists
    /\ mi = 0
    /\ final_matrix = <<>>
    /\ mode_matrix = <<>>
    /\ cacheReads = {}
    /\ lastCall = NoCall
    /\ failedModes = {}
    /\ tasks \in TaskLists
    /\ prefOK \in BOOLEAN
    /\ route = <<>>
    /\ start_times = <<>>
    /\ travel_modes = <<>>
    /\ travel_times = <<>>
    /\ solved = FALSE
    /\ scheduled = <<>>
    /\ pending = <<>>
    /\ fi = 0
    /\ result = "none"
    /\ hist = NoHist
    /\ first = NoRun
    /\ workers = <<>>
    /\ fetch = NoFetch

Next ==
    \/ RunAgain
    \/ complete_tasks
    \/ complete_single_task
    \/ StartRun
    \/ ProcessMode
    \/ FinishBuild
    \/ SolveTsp
    \/ Prepare
    \/ ScheduleFixed
    \/ ScheduleFlexible
    \/ Commit

Spec == Init /\ [][Next]_vars


----------------------------------------------------------------------------
(* Properties of run_optimization (specification Spec) *)

\* the run has committed a schedule and returned True
RunWrote == pc = "done" /\ result = "true"

SlotsOverlap(a, b) ==
    /\ a.scheduled_start_time < b.scheduled_end_time
    /\ b.scheduled_start_time < a.scheduled_end_time

FixedTasks == {k \in DOMAIN tasks : NotCompleted(tasks[k]) /\ IsFixed(tasks[k])}

SlotsOf(rows, k) == {s \in DOMAIN rows : rows[s].raw_task_id = k}

\* C1: after a run that writes a schedule, no two slots of the user overlap in
\* time: of every two distinct slots one ends at or before the start of the other.
C1_NoOverlappingSlots ==
    RunWrote =>
        \A k \in DOMAIN scheduled, l \in DOMAIN scheduled :
            k # l => ~SlotsOverlap(scheduled[k], scheduled[l])

\* C2: in every run that writes a schedule, each fixed-time task (a calendar
\* event with a start and an end) has its slot at exactly its original start and
\* end, whatever route and times solve_tsp returned.
C2_FixedSlotsKeepOriginalTimes ==
    RunWrote =>
        \A k \in FixedTasks :
            /\ SlotsOf(scheduled, k) # {}
            /\ \A s \in SlotsOf(scheduled, k) :
                /\ scheduled[s].scheduled_start_time = tasks[k].start * TicksPerMinute
                /\ scheduled[s].scheduled_end_time = tasks[k].end * TicksPerMinute

\* a written schedule with a fixed task and a flexible one, on a route of the engine
C2_Witness ==
    /\ RunWrote
    /\ solved
    /\ FixedTasks # {}
    /\ \E s \in DOMAIN scheduled : scheduled[s].node >= 1

\* C3: in every run that writes a schedule, each not-completed task has exactly
\* one slot, for every route of the engine and for the no-solution fallback: no
\* task is missing and none is scheduled twice.
C3_ExactlyOneSlotPerTask ==
    RunWrote =>
        /\ \A k \in DOMAIN tasks :
              NotCompleted(tasks[k]) => Cardinality(SlotsOf(scheduled, k)) = 1
        /\ \A s \in DOMAIN scheduled : scheduled[s].raw_task_id \in DOMAIN tasks

\* a written schedule of a fixed task followed by a flexible one
C3_Witness ==
    /\ RunWrote
    /\ Len0(tasks) = 2
    /\ IsFixed(tasks[0])
    /\ ~IsFixed(tasks[1])
    /\ Len0(scheduled) = 2

\* C4: the depot, at location index 0 and at the last location index, never
\* gives a slot: every row the loop over the route creates belongs to a task
\* node and to the task of that node.  The rows of a run are the rows of its
\* session and, once it has committed, the rows of the schedule.
RowsOfThisRun == IF pc = "done" /\ result = "true" THEN {pending, scheduled} ELSE {pending}

C4_DepotNeverScheduled ==
    \A rows \in RowsOfThisRun : \A s \in DOMAIN rows :
        rows[s].node # -1 =>
            /\ rows[s].node \in 1..(Len0(locations) - 2)
            /\ rows[s].raw_task_id = task_indices(tasks)[rows[s].node - 1]

\* the loop has passed a depot entry of an engine route and has created a row
C4_Witness ==
    /\ pc = "flex"
    /\ solved
    /\ \E i \in 0..(fi - 1) : route[i] = Len0(locations) - 1
    /\ \E i \in 0..(fi - 1) : route[i] = 0
    /\ \E s \in DOMAIN pending : pending[s].node >= 1

DayEnd == (23 * 60 + 59) * TicksPerMinute

\* C5: every slot a run writes starts and ends within the day, between 00:00
\* and 23:59.
C5_SlotsWithinTheDay ==
    RunWrote =>
        \A s \in DOMAIN scheduled :
            /\ 0 <= scheduled[s].scheduled_start_time
            /\ scheduled[s].scheduled_start_time <= scheduled[s].scheduled_end_time
            /\ scheduled[s].scheduled_end_time <= DayEnd

FixedConflict ==
    \E k \in FixedTasks, l \in FixedTasks :
        /\ k # l
        /\ tasks[k].start < tasks[l].end
        /\ tasks[l].start < tasks[k].end

\* C6: when two fixed tasks cannot both be honoured (their windows overlap), the
\* run fails and writes no schedule, partial or complete.
C6_FixedConflictFailsTheRun ==
    FixedConflict =>
        /\ result # "true"
        /\ Len0(scheduled) = 0

\* C7: when the engine finds no tour, the run ends with no route from solve_tsp
\* and with failure; no schedule built from a tour that was not found is returned
\* or persisted.
C7_NoSolutionIsReported ==
    (pc = "done" /\ ~solved) =>
        /\ Len0(route) = 0
        /\ result # "true"
        /\ Len0(scheduled) = 0

\* C8: when the provider raises during the calls of a mode, the durations it had
\* answered before stay in the cache, the modes after the failing one are still
\* processed, build_distance_matrix returns its two matrices, and the run goes on
\* to solve_tsp.
C8_ProviderFailureIsTolerated ==
    \A f \in failedModes :
        /\ \A p \in f.answered :
            /\ cache[<<p[1], p[2], f.gmode>>] # NoEntry
            /\ cache[<<p[1], p[2], f.gmode>>][1] >= f.at
            /\ cache[<<p[1], p[2], f.gmode>>][2] = duration_minutes(p[1], p[2], f.gmode)
        /\ pc = "modes" => mi > f.index
        /\ pc \in {"built", "solved", "fixed", "flex", "done", "raised"} =>
            /\ mi = Len0(modes)
            /\ DOMAIN final_matrix = DOMAIN locations
            /\ DOMAIN mode_matrix = DOMAIN locations
            /\ \A i \in DOMAIN locations : final_matrix[i][i] = 0

\* the provider raised in the first mode after it had answered a pair, the second
\* mode was fetched, and the run has written its schedule
C8_Witness ==
    /\ RunWrote
    /\ \E f \in failedModes : f.index = 0 /\ f.answered # {}
    /\ lastCall.kind = "fetched"
    /\ lastCall.index = 1

\* C9: the matrix handed to solve_tsp has no unresolved off-diagonal entry, the
\* pair of the start depot and the end depot included.
C9_NoUnresolvedEntry ==
    (pc = "built" /\ inRun) =>
        \A i \in DOMAIN final_matrix, j \in DOMAIN final_matrix :
            i # j => final_matrix[i][j] # Inf

----------------------------------------------------------------------------
(* Properties of the duration cache (specification SpecCache) *)

\* C10: a cached duration is read for the matrix only when now - storedAt is
\* below seven days at the time of the read, and a pair whose entry is at or past
\* that age is requested from the provider like a pair without entry.
C10_CacheExpiry ==
    /\ \A r \in cacheReads : r[3] - r[2] < 7 * 24 * 60 * 60
    /\ lastCall.kind \in {"cached", "fetched", "raised"} =>
        \A p \in lastCall.stale :
            /\ lastCall.kind # "cached"
            /\ locations[p[1]] \in Range0(lastCall.origins)
            /\ locations[p[2]] \in Range0(lastCall.destinations)

\* one build reads an entry one second before its expiry and, one second later,
\* requests the pairs whose entries have reached it
C10_Witness ==
    /\ lastCall.kind = "fetched"
    /\ lastCall.at = CACHE_EXPIRY
    /\ lastCall.stale # {}
    /\ \E r \in cacheReads : r[3] - r[2] = CACHE_EXPIRY - 1

\* C11: cache entries are insert-or-reuse: an entry that is stored and not yet
\* expired keeps its duration and its timestamp through every later build.
C11_InsertOrReuse ==
    [][\A key \in CacheKeys :
          (cache[key] # NoEntry /\ now - cache[key][1] < 7 * 24 * 60 * 60)
              => cache'[key] = cache[key]]_vars


KnownModes == AppModes \cup GoogleModes

\* C12: every leg of the route solve_tsp returns has exactly one travel mode, a
\* known and non-empty one, and every row written has its transit_mode set, on
\* the engine's routes and on the no-solution fallback.
C12_EveryLegHasAMode ==
    /\ (pc \in {"solved", "fixed", "flex", "done", "raised"} /\ Len0(route) > 0) =>
        /\ Len0(travel_modes) = Len0(route) - 1
        /\ \A k \in DOMAIN travel_modes : travel_modes[k] \in KnownModes
    /\ \A rows \in {pending, scheduled} : \A s \in DOMAIN rows :
        rows[s].transit_mode \in KnownModes

\* an engine route over a matrix with an empty mode cell on one of its legs, and
\* a written schedule with a fixed and a flexible row
C12_Witness ==
    /\ RunWrote
    /\ solved
    /\ \E k \in 0..(Len0(route) - 2) : mode_matrix[route[k]][route[k + 1]] = ""
    /\ \E s \in DOMAIN scheduled : scheduled[s].node >= 1
    /\ \E s \in DOMAIN scheduled : scheduled[s].node = -1

\* the service duration of a task (45 minutes when it has none)
ServiceMinutes(task) == IF task.duration # 0 THEN task.duration ELSE 45

\* C13: the row of every flexible task lasts exactly the service duration of the
\* task, whether or not its start was moved by the travel-plus-buffer adjustment;
\* a run over a single flexible task writes exactly one row, of that duration.
C13_SlotLastsServiceDuration ==
    /\ \A rows \in {pending, scheduled} : \A s \in DOMAIN rows :
        rows[s].node # -1 =>
            rows[s].scheduled_end_time - rows[s].scheduled_start_time
                = ServiceMinutes(tasks[rows[s].raw_task_id]) * TicksPerMinute
    /\ (RunWrote /\ Len0(tasks) = 1 /\ ~IsFixed(tasks[0])) =>
        /\ Len0(scheduled) = 1
        /\ scheduled[0].scheduled_end_time - scheduled[0].scheduled_start_time
               = ServiceMinutes(tasks[0]) * TicksPerMinute

\* a written row of a task without duration whose start was moved behind the
\* rows before it
C13_Witness ==
    /\ RunWrote
    /\ \E s \in DOMAIN scheduled :
        /\ scheduled[s].node >= 1
        /\ tasks[scheduled[s].raw_task_id].duration = 0
        /\ scheduled[s].scheduled_start_time
               > PyAt(start_times, scheduled[s].node) * TicksPerMinute

\* the second run has ended, and it started with the cache the first started with
\* and got the same choice of the engine
SecondRunEnded ==
    /\ pc \in {"done", "raised"}
    /\ first.run = 1
    /\ hist.cache0 = first.hist.cache0
    /\ hist.solver = first.hist.solver

SuitableModes(i, j) ==
    {w \in DOMAIN modes :
        LET key == _get_cache_key(locations[i], locations[j], mode_mapping(modes[w]))
        IN  /\ _is_cached_and_valid(cache, now, key)
            /\ _should_use_mode_for_distance(mode_mapping(modes[w]), cache[key][2])}

CachedMinutes(i, j, w) ==
    cache[_get_cache_key(locations[i], locations[j], mode_mapping(modes[w]))][2]

C16_TaskReadsItsOwnArrival ==
    Len0(route) > 0 =>
        \A k \in DOMAIN route :
            ~IsDepot(route[k], Len0(locations)) =>
                /\ ~IndexRaises(start_times, route[k])
                /\ PyAt(start_times, route[k]) = start_times[k]

\* maps_utils.py lines 333-363: the transit value solve_tsp registers with the
\* engine, the entry of the duration matrix for the two nodes
time_callback(dm, from_node, to_node) == dm[from_node][to_node]

\* C17: the transit value the solver is given for going from node i to node j is
\* the travel time of the matrix plus the service duration of node i.
C17_TransitIncludesService ==
    (pc = "built" /\ inRun) =>
        \A i \in DOMAIN final_matrix, j \in DOMAIN final_matrix :
            i # j =>
                time_callback(final_matrix, i, j) = Plus(final_matrix[i][j], durations(tasks)[i])

\* C18: in every route solve_tsp returns, the arrival time reported for a
\* visited node lies inside the time window of that node.
C18_ArrivalInsideWindow ==
    (pc = "solved" /\ Len0(route) > 0) =>
        \A k \in DOMAIN route :
            /\ k \in DOMAIN start_times
            /\ time_windows(tasks)[route[k]][1] <= start_times[k]
            /\ start_times[k] <= time_windows(tasks)[route[k]][2]

\* C19: a route solve_tsp returns begins with a depot node and ends with a depot
\* node, and no depot node stands in between (the home nodes 0 and N-1 both
\* count as the depot).
C19_DepotFirstAndLast ==
    (pc = "solved" /\ Len0(route) > 0) =>
        LET n == Len0(locations)
            last == Len0(route) - 1
        IN  /\ IsDepot(route[0], n)
            /\ IsDepot(route[last], n)
            /\ last > 0
            /\ \A k \in 1..(last - 1) : ~IsDepot(route[k], n)

\* C20: after build_distance_matrix every cell of two different indices holds the
\* smallest duration over the enabled modes whose duration for the two addresses
\* is known and suits the distance, and the mode matrix names a mode attaining
\* it; this for every pair of indices, also of an address that occurs twice.
C20_MergedMinimumEveryPair ==
    (pc = "built" /\ inRun) =>
        \A i \in DOMAIN locations, j \in DOMAIN locations :
            (i # j /\ SuitableModes(i, j) # {}) =>
                \E w \in SuitableModes(i, j) :
                    /\ \A v \in SuitableModes(i, j) : CachedMinutes(i, j, w) <= CachedMinutes(i, j, v)
                    /\ final_matrix[i][j] = CachedMinutes(i, j, w)
                    /\ mode_matrix[i][j] \in
                           {modes[w], mode_mapping(modes[w]),
                            _best_mode_for_distance(mode_mapping(modes[w]), CachedMinutes(i, j, w))}

\* the policy of the claim: walking up to the short threshold, cycling up to the
\* medium threshold, transit and driving for every duration
MonotonePolicy(mode, distance_minutes) ==
    CASE mode = "walking" -> distance_minutes <= SHORT_DISTANCE_THRESHOLD
      [] mode = "bicycling" -> distance_minutes <= MEDIUM_DISTANCE_THRESHOLD
      [] OTHER -> TRUE

\* C21: on every cached duration a build reads, the distance filter admits the
\* mode exactly when the monotone policy does: walking up to 15 minutes, cycling
\* up to 30, transit and driving always.
C21_FilterIsMonotonePolicy ==
    \A r \in cacheReads :
        _should_use_mode_for_distance(r[1][3], cache[r[1]][2])
            = MonotonePolicy(r[1][3], cache[r[1]][2])

\* the pairs of distinct places of the build that had no valid entry of the mode
\* when the run started
UncachedPlacePairs(gmode) ==
    {<<locations[i], locations[j]>> : <<i, j>> \in
        {p \in (DOMAIN locations) \X (DOMAIN locations) :
            /\ locations[p[1]] # locations[p[2]]
            /\ ~_is_cached_and_valid(hist.cache0, lastCall.at,
                                     _get_cache_key(locations[p[1]], locations[p[2]], gmode))}}

\* the pairs a provider request of the last _process_mode asked for
RequestedPairs == Range0(lastCall.origins) \X Range0(lastCall.destinations)

\* C22: the pairs sent to the provider for a mode are exactly the pairs of
\* distinct places without a valid cache entry for that mode, and no request
\* is issued when there is no such pair.
C22_RequestsExactlyUncached ==
    (inRun /\ lastCall.kind # "none") =>
        IF lastCall.kind = "cached"
        THEN UncachedPlacePairs(mode_mapping(lastCall.mode)) = {}
        ELSE /\ UncachedPlacePairs(mode_mapping(lastCall.mode)) # {}
             /\ RequestedPairs = UncachedPlacePairs(mode_mapping(lastCall.mode))

\* C23: every provider request has at most 25 origins and at most 25
\* destinations, neither list names a place twice, and when the loops are over
\* no batch was skipped: every origin was requested with every destination.
C23_RequestsAreBoundedBatches ==
    /\ \A q \in DOMAIN fetch.calls :
          LET call == fetch.calls[q]
          IN  /\ Len0(call.origins) <= 25
              /\ Len0(call.destinations) <= 25
              /\ Len0(call.origins) * Len0(call.destinations) <= 25 * 25
              /\ \A k \in DOMAIN call.origins, l \in DOMAIN call.origins :
                    call.origins[k] = call.origins[l] => k = l
              /\ \A k \in DOMAIN call.destinations, l \in DOMAIN call.destinations :
                    call.destinations[k] = call.destinations[l] => k = l
    /\ pc = "fetched" =>
          /\ fetch.skipped = 0
          /\ \A o \in Range0(fetch.origins), d \in Range0(fetch.destinations) :
                \E q \in DOMAIN fetch.calls :
                    /\ o \in Range0(fetch.calls[q].origins)
                    /\ d \in Range0(fetch.calls[q].destinations)

\* lists of 51 origins and 26 destinations were requested in six calls
C23_Witness ==
    /\ pc = "fetched"
    /\ Len0(fetch.origins) = 51
    /\ Len0(fetch.destinations) = 26
    /\ Len0(fetch.calls) = 6

\* the start the flexible pass reads from the solver for a written row
SolverStart(row) == PyAt(start_times, row.node) * TicksPerMinute

\* the written row would overlap no other written row at its solver-assigned start
FreeAtSolverStart(s) ==
    LET moved == [scheduled[s] EXCEPT
                     !.scheduled_start_time = SolverStart(scheduled[s]),
                     !.scheduled_end_time = SolverStart(scheduled[s])
                         + (scheduled[s].scheduled_end_time - scheduled[s].scheduled_start_time)]
    IN  \A o \in DOMAIN scheduled : o # s => ~SlotsOverlap(moved, scheduled[o])

\* C24: a flexible slot that overlaps no other slot keeps the start the solver
\* assigned to it; it is not pushed behind a slot that lies later in the day.
C24_FreeSlotKeepsSolverStart ==
    RunWrote =>
        \A s \in DOMAIN scheduled :
            (scheduled[s].node >= 1 /\ FreeAtSolverStart(s)) =>
                scheduled[s].scheduled_start_time = SolverStart(scheduled[s])

\* the fixed order of preference of the claim
PreferenceOrder ==
    [k \in 0..4 |-> CASE k = 0 -> "car" [] k = 1 -> "rideshare" [] k = 2 -> "bus_train"
                      [] k = 3 -> "bike" [] OTHER -> "walking"]

FirstByPreference(enabled) ==
    PreferenceOrder[CHOOSE k \in DOMAIN PreferenceOrder :
        /\ PreferenceOrder[k] \in enabled
        /\ \A l \in DOMAIN PreferenceOrder : PreferenceOrder[l] \in enabled => k <= l]

\* the mode the solver gave for the leg into route entry i, "" when there is none
LegModeInto(i) ==
    IF i > 0 /\ i - 1 < Len0(travel_modes) THEN travel_modes[i - 1] ELSE ""

\* C25: a row whose leg has no mode, or a mode the user has not enabled, is
\* given the first enabled mode in the order car, rideshare, transit, bike,
\* walking; and every row carries an enabled mode.
C25_FallbackFollowsPreferenceOrder ==
    RunWrote =>
        \A s \in DOMAIN scheduled :
            /\ scheduled[s].transit_mode \in Range0(modes)
            /\ \A i \in DOMAIN route :
                  (scheduled[s].node >= 1 /\ route[i] = scheduled[s].node
                      /\ LegModeInto(i) \notin Range0(modes)) =>
                          scheduled[s].transit_mode = FirstByPreference(Range0(modes))

\* C26: on every return of solve_tsp the results are aligned: one start time per
\* route entry, one mode per leg, and the mode of leg k is the mode the mode
\* matrix holds for route[k] -> route[k+1].
C26_ResultsAligned ==
    (pc = "solved" /\ Len0(route) > 0) =>
        /\ Len0(start_times) = Len0(route)
        /\ Len0(travel_modes) = Len0(route) - 1
        /\ \A k \in DOMAIN travel_modes :
              mode_matrix[route[k]][route[k + 1]] # "" =>
                  travel_modes[k] = mode_matrix[route[k]][route[k + 1]]

\* C27: a build right after a build that started from an empty cache, for the
\* same locations and modes and with every provider answer given, returns the
\* duration matrix and the mode matrix of the first build.
C27_CacheStateDoesNotShow ==
    (pc = "built" /\ inRun /\ first.run = 1 /\ first.hist.cache0 = EmptyCache) =>
        /\ final_matrix = first.final_matrix
        /\ mode_matrix = first.mode_matrix

\* C28: every non-empty entry of the mode matrix a build returns is one of the
\* application mode names passed in `modes`, and an entry off the diagonal is
\* non-empty exactly when its duration is resolved.
C28_ModeMatrixInAppVocabulary ==
    (pc = "built" /\ inRun) =>
        \A i \in DOMAIN mode_matrix, j \in DOMAIN mode_matrix :
            /\ mode_matrix[i][j] # "" => mode_matrix[i][j] \in Range0(modes)
            /\ i # j => (mode_matrix[i][j] # "" <=> final_matrix[i][j] # Inf)

\* C29: when the run that a completion handler started has ended, the schedule
\* holds no row of a completed task.
C29_NoSlotForCompletedTask ==
    (pc \in {"done", "raised"} /\ first.run = 2) =>
        \A s \in DOMAIN scheduled : NotCompleted(tasks[scheduled[s].raw_task_id])


\* C30: the travel time recorded with a flexible slot, which is also the travel
\* time added to the buffer when the slot is pushed, is the merged-matrix
\* duration in minutes of the leg from the previous route node to the slot's
\* node, for every leg the matrix has a duration for
FlexRows == {s \in DOMAIN pending : pending[s].node > 0}

C30_TravelTimeInMatrixMinutes ==
    pc = "flex" =>
        \A s \in FlexRows :
            LET i == IndexOf(route, pending[s].node)
            IN  (i > 0 /\ final_matrix[route[i - 1]][route[i]] < Inf) =>
                    pending[s].travel_eta_minutes
                        = final_matrix[route[i - 1]][route[i]] * TicksPerMinute

============================================================================
